---- MODULE Spec2Model ----
(***************************************************************************)
(* Model of script.js of the web accessibility & usability checker:        *)
(* the Analyze button, the FileReader, the preview iframe, the five        *)
(* heuristic checks of analyzeDocument, the contrast math, and the          *)
(* rendering of the results with the Chart.js doughnut.                     *)
(*                                                                         *)
(* Strings the code parses are sequences of one-character strings.          *)
(* A CSS colour string is a record [fn, args]: "rgb(1, 2, 3)" is            *)
(* [fn |-> "rgb", args |-> <<1, 2, 3>>]; the alpha argument of rgba() is    *)
(* kept in hundredths.  A document is the DOM the iframe builds from the    *)
(* HTML: its elements in document order, each with its tag name, its alt    *)
(* attribute, its computed style and the index of its parent element        *)
(* (0 is <body>; the parent of <body> is the root element <html>).          *)
(***************************************************************************)
EXTENDS Integers, Sequences, FiniteSets, TLC

\* ------------------------------------------------------------------------
\* Bounds of the model
\* ------------------------------------------------------------------------
MaxImgs == 5
MaxHeadings == 3
MaxText == 5
MaxNested == 2
MaxClicks == 3

\* ------------------------------------------------------------------------
\* Strings
\* ------------------------------------------------------------------------
Digits == {"0", "1", "2", "3", "4", "5", "6", "7", "8", "9"}

DigitValue(c) ==
  CASE c = "0" -> 0 [] c = "1" -> 1 [] c = "2" -> 2 [] c = "3" -> 3
    [] c = "4" -> 4 [] c = "5" -> 5 [] c = "6" -> 6 [] c = "7" -> 7
    [] c = "8" -> 8 [] c = "9" -> 9

Whitespace == {" "}

RECURSIVE TrimStart(_)
TrimStart(s) ==
  IF s # <<>> /\ Head(s) \in Whitespace THEN TrimStart(Tail(s)) ELSE s

RECURSIVE TrimEnd(_)
TrimEnd(s) ==
  IF s # <<>> /\ s[Len(s)] \in Whitespace
  THEN TrimEnd(SubSeq(s, 1, Len(s) - 1))
  ELSE s

\* String.prototype.trim
Trim(s) == TrimEnd(TrimStart(s))

\* s.slice(1)
Slice1(s) == IF s = <<>> THEN <<>> ELSE Tail(s)

NaN == [nan |-> TRUE, value |-> 0]

\* the leading run of decimal digits of s, as a number, from accumulator acc
RECURSIVE DigitRun(_, _)
DigitRun(s, acc) ==
  IF s # <<>> /\ Head(s) \in Digits
  THEN DigitRun(Tail(s), 10 * acc + DigitValue(Head(s)))
  ELSE acc

RECURSIVE AfterDigits(_)
AfterDigits(s) ==
  IF s # <<>> /\ Head(s) \in Digits THEN AfterDigits(Tail(s)) ELSE s

\* parseInt(s, 10) of an unsigned string: NaN unless s starts with a digit
ParseInt(s) ==
  IF s # <<>> /\ Head(s) \in Digits
  THEN [nan |-> FALSE, value |-> DigitRun(s, 0)]
  ELSE NaN

\* parseFloat(s) of an unsigned string such as "11.5px", in tenths: the
\* integer part and the first digit of the fraction (the sizes of the model
\* have at most one)
ParseFloatTenths(s) ==
  IF s # <<>> /\ Head(s) \in Digits
  THEN LET rest == AfterDigits(s)
           frac == IF Len(rest) >= 2 /\ rest[1] = "." /\ rest[2] \in Digits
                   THEN DigitValue(rest[2])
                   ELSE 0
       IN [nan |-> FALSE, value |-> 10 * DigitRun(s, 0) + frac]
  ELSE NaN

\* Math.round(num / den) for num >= 0, den > 0: floor(num / den + 0.5)
MathRound(num, den) == (2 * num + den) \div (2 * den)

\* ------------------------------------------------------------------------
\* Colours
\* ------------------------------------------------------------------------
Rgb(r, g, b) == [fn |-> "rgb", args |-> <<r, g, b>>]
Rgba(r, g, b, a) == [fn |-> "rgba", args |-> <<r, g, b, a>>]

\* the computed value of background-color: transparent
TransparentBlack == Rgba(0, 0, 0, 0)
DefaultBackground == Rgb(255, 255, 255)
Black == Rgb(0, 0, 0)
White == Rgb(255, 255, 255)
Gray119 == Rgb(119, 119, 119)
Gray118 == Rgb(118, 118, 118)
\* a colour that is fully transparent but not black
TransparentRed == Rgba(255, 0, 0, 0)
\* a computed colour in a form other than rgb()/rgba(): color(display-p3 1 0 0)
DisplayP3Red == [fn |-> "color", args |-> <<100, 0, 0>>]
EmptyString == [fn |-> "", args |-> <<>>]

NoColor == [ok |-> FALSE, r |-> 0, g |-> 0, b |-> 0]

\* parseCssColor: the regular expression matches rgb( or rgba( followed by
\* three numbers; anything else, and the empty string, gives null
parseCssColor(colorStr) ==
  IF colorStr = EmptyString THEN NoColor
  ELSE IF colorStr.fn \in {"rgb", "rgba"} /\ Len(colorStr.args) >= 3
       THEN [ok |-> TRUE, r |-> colorStr.args[1], g |-> colorStr.args[2],
             b |-> colorStr.args[3]]
       ELSE NoColor

\* One channel of relativeLuminance, in units of 1/100000: c / 255 scaled by
\* 1 / 12.92 up to 0.03928, ((c / 255 + 0.055) / 1.055) ^ 2.4 above it.  The
\* power is tabulated for the channel values the model's colours use.
Linearize(c) ==
  CASE c = 0 -> 0
    [] c = 118 -> 18116
    [] c = 119 -> 18447
    [] c = 204 -> 60383
    [] c = 255 -> 100000

\* relativeLuminance, in units of 1/100000
relativeLuminance(r, g, b) ==
  (2126 * Linearize(r) + 7152 * Linearize(g) + 722 * Linearize(b)) \div 10000

Max2(a, b) == IF a >= b THEN a ELSE b
Min2(a, b) == IF a <= b THEN a ELSE b

\* computeContrastRatio, as a fraction num / den with den > 0; -1 is -1 / 1
computeContrastRatio(fgColor, bgColor) ==
  LET fg == parseCssColor(fgColor)
      bg == parseCssColor(bgColor)
  IN IF ~fg.ok \/ ~bg.ok THEN [num |-> -1, den |-> 1]
     ELSE LET lum1 == relativeLuminance(fg.r, fg.g, fg.b)
              lum2 == relativeLuminance(bg.r, bg.g, bg.b)
              lighter == Max2(lum1, lum2)
              darker == Min2(lum1, lum2)
          IN [num |-> lighter + 5000, den |-> darker + 5000]

\* ------------------------------------------------------------------------
\* The document
\* ------------------------------------------------------------------------
\* the root element <html>, as a node index
DocumentElement == -1
Body == 0

NoAlt == [present |-> FALSE, value |-> <<>>]
Alt(s) == [present |-> TRUE, value |-> s]

Element(tag, alt, size, fg, bg, par) ==
  [tagName |-> tag, alt |-> alt, fontSize |-> size, color |-> fg,
   backgroundColor |-> bg, parent |-> par]

Document(els, bodyBg, sw) ==
  [elems |-> els, bodyBackground |-> bodyBg, scrollWidth |-> sw,
   clientWidth |-> 375]

\* current.parentElement
ParentElement(doc, node) ==
  IF node = Body THEN DocumentElement ELSE doc.elems[node].parent

\* getComputedStyle(node).backgroundColor
BackgroundColorOf(doc, node) ==
  IF node = Body THEN doc.bodyBackground ELSE doc.elems[node].backgroundColor

\* getElementsByTagName / querySelectorAll with a list of tag names: the
\* indices of the matching elements, in document order
RECURSIVE QueryFrom(_, _, _)
QueryFrom(doc, tags, i) ==
  IF i > Len(doc.elems) THEN <<>>
  ELSE (IF doc.elems[i].tagName \in tags THEN <<i>> ELSE <<>>)
       \o QueryFrom(doc, tags, i + 1)

QuerySelectorAll(doc, tags) == QueryFrom(doc, tags, 1)

ImgTag == {<<"I", "M", "G">>}
HeadingTags == {<<"H", "1">>, <<"H", "2">>, <<"H", "3">>, <<"H", "4">>,
                <<"H", "5">>, <<"H", "6">>}
TextTags == {<<"P">>, <<"L", "I">>, <<"A">>, <<"S", "P", "A", "N">>,
             <<"B", "U", "T", "T", "O", "N">>}
ContrastTags == {<<"P">>, <<"B", "U", "T", "T", "O", "N">>, <<"A">>}
                  \cup HeadingTags

\* getEffectiveBackground: up the tree from el, the root element excluded
RECURSIVE getEffectiveBackgroundFrom(_, _)
getEffectiveBackgroundFrom(doc, current) ==
  IF current # DocumentElement
  THEN LET backgroundColor == BackgroundColorOf(doc, current)
       IN IF backgroundColor # EmptyString /\ backgroundColor # TransparentBlack
          THEN backgroundColor
          ELSE getEffectiveBackgroundFrom(doc, ParentElement(doc, current))
  ELSE DefaultBackground

getEffectiveBackground(doc, el) == getEffectiveBackgroundFrom(doc, el)

\* ------------------------------------------------------------------------
\* analyzeDocument
\* ------------------------------------------------------------------------
\* addIssue pushes { severity, text }; a text is its wording and the numbers
\* the template string puts into it.  addIssueUnlessOk is addIssue called
\* on the failing branches only.
addIssueUnlessOk(issues, severity, text) ==
  IF severity = "ok" THEN issues
  ELSE Append(issues, [severity |-> severity, text |-> text])

addIssue(issues, severity, text) ==
  Append(issues, [severity |-> severity, text |-> text])

Text(msg, args) == [msg |-> msg, args |-> args]

\* (img.getAttribute("alt") || "").trim()
TrimmedAlt(img) == Trim(IF img.alt.present THEN img.alt.value ELSE <<>>)

\* imgElements.forEach: if (!alt) missingAlt++
RECURSIVE CountMissingAlt(_, _, _)
CountMissingAlt(doc, imgElements, missingAlt) ==
  IF imgElements = <<>> THEN missingAlt
  ELSE CountMissingAlt(doc, Tail(imgElements),
         IF TrimmedAlt(doc.elems[Head(imgElements)]) = <<>>
         THEN missingAlt + 1
         ELSE missingAlt)

\* AltScoreOf with >= for > in both comparisons
AltScoreOfInclusive(missingAlt, totalImgs) ==
  IF totalImgs > 0
  THEN IF 2 * missingAlt >= totalImgs THEN 30
       ELSE IF 5 * missingAlt >= totalImgs THEN 60
       ELSE 90
  ELSE 100

\* AltScoreOf with 0 for the lowest score
AltScoreOfZero(missingAlt, totalImgs) ==
  IF totalImgs > 0
  THEN IF 2 * missingAlt > totalImgs THEN 0
       ELSE IF 5 * missingAlt > totalImgs THEN 60
       ELSE 90
  ELSE 100

\* ratio > 0.5 is 2 * missingAlt > totalImgs, ratio > 0.2 is
\* 5 * missingAlt > totalImgs
AltScoreOf(missingAlt, totalImgs) ==
  IF totalImgs > 0
  THEN IF 2 * missingAlt > totalImgs THEN 30
       ELSE IF 5 * missingAlt > totalImgs THEN 60
       ELSE 90
  ELSE 100

\* 1. Alt text check
AltTextCheck(doc) ==
  LET imgElements == QuerySelectorAll(doc, ImgTag)
      totalImgs == Len(imgElements)
      missingAlt == CountMissingAlt(doc, imgElements, 0)
  IN [score |-> AltScoreOf(missingAlt, totalImgs),
      issue |-> [severity |-> IF missingAlt > 0 THEN "critical" ELSE "ok",
                 text |-> IF missingAlt > 0
                          THEN Text("image(s) without descriptive alt text",
                                    <<missingAlt, totalImgs>>)
                          ELSE Text("All images appear to have alt text.",
                                    <<>>)],
      summary |-> IF totalImgs = 0
                  THEN Text("No images detected.", <<>>)
                  ELSE Text("images are missing alt text",
                            <<missingAlt, totalImgs>>),
      missingAlt |-> missingAlt,
      totalImgs |-> totalImgs]

NullLevel == [isNull |-> TRUE, value |-> 0]

\* headingTags.forEach with lastLevel and jumps
RECURSIVE CountJumps(_, _, _, _)
CountJumps(doc, headingTags, lastLevel, jumps) ==
  IF headingTags = <<>> THEN jumps
  ELSE LET level == ParseInt(Slice1(doc.elems[Head(headingTags)].tagName)).value
       IN CountJumps(doc, Tail(headingTags),
            [isNull |-> FALSE, value |-> level],
            IF ~lastLevel.isNull /\ level - lastLevel.value > 1
            THEN jumps + 1
            ELSE jumps)

\* HeadingJumps with lastLevel starting at 0 for null
HeadingJumpsFromZero(doc, headingTags) ==
  CountJumps(doc, headingTags, [isNull |-> FALSE, value |-> 0], 0)

\* let jumps = 0; let lastLevel = null; headingTags.forEach(...)
HeadingJumps(doc, headingTags) == CountJumps(doc, headingTags, NullLevel, 0)

\* HeadingScoreOf without the score for no headings
HeadingScoreOfNoPenalty(headings, jumps) ==
  IF jumps > 0 THEN 70 ELSE 100

\* headingScore
HeadingScoreOf(headings, jumps) ==
  IF headings = 0 THEN 50
  ELSE IF jumps > 0 THEN 70 ELSE 100

\* 2. Heading structure check
HeadingCheck(doc) ==
  LET headingTags == QuerySelectorAll(doc, HeadingTags)
      jumps == HeadingJumps(doc, headingTags)
  IN [score |-> HeadingScoreOf(Len(headingTags), jumps),
      issue |-> IF Len(headingTags) = 0
                THEN [severity |-> "warning",
                      text |-> Text("No heading tags (h1-h6) were found.",
                                    <<>>)]
                ELSE IF jumps > 0
                THEN [severity |-> "warning",
                      text |-> Text("jump(s) in heading levels", <<jumps>>)]
                ELSE [severity |-> "ok",
                      text |-> Text("Heading levels appear to follow a consistent hierarchy.",
                                    <<>>)],
      summary |-> IF Len(headingTags) = 0
                  THEN Text("No headings used", <<>>)
                  ELSE Text("heading(s); structure is mostly valid",
                            <<Len(headingTags)>>),
      jumps |-> jumps,
      headings |-> Len(headingTags)]

\* textNodes.forEach: !isNaN(fontSizePx) && fontSizePx < 12
RECURSIVE CountSmallText(_, _, _)
CountSmallText(doc, textNodes, smallTextCount) ==
  IF textNodes = <<>> THEN smallTextCount
  ELSE LET fontSizePx == ParseFloatTenths(doc.elems[Head(textNodes)].fontSize)
       IN CountSmallText(doc, Tail(textNodes),
            IF ~fontSizePx.nan /\ fontSizePx.value < 120
            THEN smallTextCount + 1
            ELSE smallTextCount)

\* 3. Font size check; smallTextCount > textNodes.length * 0.3 is
\* 10 * smallTextCount > 3 * textNodes.length
FontSizeCheck(doc) ==
  LET textNodes == QuerySelectorAll(doc, TextTags)
      smallTextCount == CountSmallText(doc, textNodes, 0)
  IN [score |-> IF smallTextCount > 0
                THEN (IF 10 * smallTextCount > 3 * Len(textNodes)
                      THEN 60 ELSE 80)
                ELSE 100,
      issue |-> IF smallTextCount > 0
                THEN [severity |-> "warning",
                      text |-> Text("text element(s) appear to use very small font sizes",
                                    <<smallTextCount>>)]
                ELSE [severity |-> "ok",
                      text |-> Text("Font sizes for common text elements appear reasonably readable.",
                                    <<>>)],
      summary |-> IF smallTextCount = 0
                  THEN Text("Font sizes look readable", <<>>)
                  ELSE Text("Some text uses very small font sizes", <<>>),
      smallTextCount |-> smallTextCount,
      textNodes |-> Len(textNodes)]

\* the bg of one contrast target (line 181)
ResolvedBackground(doc, el) ==
  IF doc.elems[el].backgroundColor = TransparentBlack
  THEN getEffectiveBackground(doc, el)
  ELSE doc.elems[el].backgroundColor

\* IsLowContrast without the test for the sentinel
IsLowContrastUnguarded(contrastRatio) ==
  2 * contrastRatio.num < 9 * contrastRatio.den

\* contrastRatio > 0 && contrastRatio < 4.5
IsLowContrast(contrastRatio) ==
  contrastRatio.num > 0 /\ 2 * contrastRatio.num < 9 * contrastRatio.den

\* contrastTargets.forEach
RECURSIVE CountLowContrast(_, _, _)
CountLowContrast(doc, contrastTargets, lowContrastCount) ==
  IF contrastTargets = <<>> THEN lowContrastCount
  ELSE LET el == Head(contrastTargets)
           fg == doc.elems[el].color
           bg == ResolvedBackground(doc, el)
           contrastRatio == computeContrastRatio(fg, bg)
       IN CountLowContrast(doc, Tail(contrastTargets),
            IF IsLowContrast(contrastRatio)
            THEN lowContrastCount + 1
            ELSE lowContrastCount)

\* 4. Color contrast check; lowContrastCount > contrastTargets.length * 0.2
\* is 5 * lowContrastCount > contrastTargets.length
ContrastCheck(doc) ==
  LET contrastTargets == QuerySelectorAll(doc, ContrastTags)
      lowContrastCount == CountLowContrast(doc, contrastTargets, 0)
  IN [score |-> IF lowContrastCount > 0
                THEN (IF 5 * lowContrastCount > Len(contrastTargets)
                      THEN 55 ELSE 75)
                ELSE 100,
      issue |-> IF lowContrastCount > 0
                THEN [severity |-> "critical",
                      text |-> Text("text element(s) may have low color contrast",
                                    <<lowContrastCount>>)]
                ELSE [severity |-> "ok",
                      text |-> Text("No obvious low-contrast text detected in common elements.",
                                    <<>>)],
      summary |-> IF lowContrastCount = 0
                  THEN Text("Text contrast appears sufficient", <<>>)
                  ELSE Text("Some text elements may fail contrast guidelines",
                            <<>>),
      lowContrastCount |-> lowContrastCount,
      contrastTargets |-> contrastTargets]

\* 5. Responsiveness / horizontal scroll check
ResponsiveCheck(doc) ==
  LET hasHorizontalScroll == doc.scrollWidth > doc.clientWidth + 5
  IN [score |-> IF hasHorizontalScroll THEN 65 ELSE 100,
      issue |-> IF hasHorizontalScroll
                THEN [severity |-> "warning",
                      text |-> Text("The layout appears to cause horizontal scrolling",
                                    <<>>)]
                ELSE [severity |-> "ok",
                      text |-> Text("No horizontal scrolling detected",
                                    <<>>)],
      summary |-> IF hasHorizontalScroll
                  THEN Text("Some elements overflow horizontally on mobile",
                            <<>>)
                  ELSE Text("Layout adapts reasonably well", <<>>)]

\* the five checks in the order analyzeDocument runs them
RunChecks(doc) ==
  <<AltTextCheck(doc), HeadingCheck(doc), FontSizeCheck(doc),
    ContrastCheck(doc), ResponsiveCheck(doc)>>

\* totalScore += score; metricsCount++ after each check
RECURSIVE Accumulate(_, _)
Accumulate(checks, acc) ==
  IF checks = <<>> THEN acc
  ELSE Accumulate(Tail(checks),
         [totalScore |-> acc.totalScore + Head(checks).score,
          metricsCount |-> acc.metricsCount + 1,
          issues |-> addIssue(acc.issues, Head(checks).issue.severity,
                              Head(checks).issue.text),
          summary |-> Append(acc.summary, Head(checks).summary)])

\* analyzeDocument with one metricsCount++ missing
analyzeDocumentMiscounted(doc) ==
  LET acc == Accumulate(RunChecks(doc),
               [totalScore |-> 0, metricsCount |-> 0, issues |-> <<>>,
                summary |-> <<>>])
  IN [finalScore |-> MathRound(acc.totalScore, acc.metricsCount - 1),
      issues |-> acc.issues,
      summary |-> acc.summary]

analyzeDocument(doc) ==
  LET acc == Accumulate(RunChecks(doc),
               [totalScore |-> 0, metricsCount |-> 0, issues |-> <<>>,
                summary |-> <<>>])
  IN [finalScore |-> MathRound(acc.totalScore, acc.metricsCount),
      issues |-> acc.issues,
      summary |-> acc.summary]

\* the local variables of analyzeDocument when it returns
AnalyzeLocals(doc) ==
  LET checks == RunChecks(doc)
  IN [altScore |-> checks[1].score,
      headingScore |-> checks[2].score,
      fontScore |-> checks[3].score,
      contrastScore |-> checks[4].score,
      responsiveScore |-> checks[5].score,
      totalImgs |-> checks[1].totalImgs,
      missingAlt |-> checks[1].missingAlt,
      jumps |-> checks[2].jumps,
      smallTextCount |-> checks[3].smallTextCount,
      lowContrastCount |-> checks[4].lowContrastCount,
      contrastTargets |-> checks[4].contrastTargets,
      bg |-> [k \in 1..Len(checks[4].contrastTargets) |->
                ResolvedBackground(doc, checks[4].contrastTargets[k])]]

\* ------------------------------------------------------------------------
\* Rendering of the results
\* ------------------------------------------------------------------------
\* the score label of renderResults
ScoreLabel(finalScore) ==
  IF finalScore >= 85 THEN "Excellent accessibility & usability"
  ELSE IF finalScore >= 70 THEN "Good, but with room to improve"
  ELSE IF finalScore >= 50 THEN "Fair, consider fixing key issues"
  ELSE "Needs improvement"

\* the badge of one issue
Badge(severity) ==
  IF severity = "critical" THEN "CRITICAL"
  ELSE IF severity = "warning" THEN "WARN"
  ELSE "OK"

\* renderResults without the chart: the results section after the call
renderResults(a) ==
  [hidden |-> FALSE,
   scoreValue |-> a.finalScore,
   scoreLabel |-> ScoreLabel(a.finalScore),
   summaryList |-> a.summary,
   issuesList |-> [k \in 1..Len(a.issues) |->
                     [badge |-> Badge(a.issues[k].severity),
                      text |-> a.issues[k].text]]]

\* DestroyCurrent without the call of destroy
DestroyNothing(chartObjects, current) == chartObjects

\* scoreChart.destroy() when scoreChart is set
DestroyCurrent(chartObjects, current) ==
  IF current # 0
  THEN [chartObjects EXCEPT ![current].destroyed = TRUE]
  ELSE chartObjects

\* renderScoreChart: the Chart objects created so far after the call; the
\* new one is the last
renderScoreChart(chartObjects, current, score) ==
  Append(DestroyCurrent(chartObjects, current),
         [data |-> <<score, 100 - score>>, destroyed |-> FALSE])

\* ------------------------------------------------------------------------
\* HTML texts and the documents they load as
\* ------------------------------------------------------------------------
\* A text is the HTML of at most one document, with pad whitespace
\* characters around it
HtmlText(pad, docs) == [pad |-> pad, html |-> docs]

EmptyText == HtmlText(0, <<>>)

\* value.trim()
TrimText(t) == [t EXCEPT !.pad = 0]

EmptyDoc == Document(<<>>, TransparentBlack, 375)

\* the document the iframe builds from srcdoc
ParseHtml(t) == IF t.html = <<>> THEN EmptyDoc ELSE t.html[1]

SeqsUpTo(S, n) == UNION {[1..k -> S] : k \in 0..n}

Px16 == <<"1", "6", "p", "x">>
Px12 == <<"1", "2", "p", "x">>
Px11 == <<"1", "1", ".", "5", "p", "x">>

Tag(name) ==
  CASE name = "img" -> <<"I", "M", "G">>
    [] name = "p" -> <<"P">>
    [] name = "span" -> <<"S", "P", "A", "N">>
    [] name = "div" -> <<"D", "I", "V">>
    [] name = "h1" -> <<"H", "1">>
    [] name = "h3" -> <<"H", "3">>

Img(alt) == Element(Tag("img"), alt, Px16, Black, TransparentBlack, Body)
Heading(tag) == Element(tag, NoAlt, Px16, Black, TransparentBlack, Body)
TextEl(tag, size, fg) == Element(tag, NoAlt, size, fg, TransparentBlack, Body)

\* images only: alt absent, alt of whitespace, alt with text
AltValues == {NoAlt, Alt(<<" ">>), Alt(<<"a", " ">>)}
AltDocs ==
  {Document(els, White, 375) :
     els \in SeqsUpTo({Img(a) : a \in AltValues}, MaxImgs)}

\* headings only, of every level
HeadingDocs ==
  {Document(els, White, 375) :
     els \in SeqsUpTo({Heading(t) : t \in HeadingTags}, MaxHeadings)}

\* text elements on the default background: readable, small, low contrast,
\* on the edge of both, with a colour the parser rejects, and a span, which
\* is no contrast target
TextKinds ==
  {TextEl(Tag("p"), Px16, Black), TextEl(Tag("p"), Px11, Black),
   TextEl(Tag("p"), Px16, Gray119), TextEl(Tag("p"), Px12, Gray118),
   TextEl(Tag("p"), Px16, DisplayP3Red), TextEl(Tag("span"), Px11, Gray119)}
TextDocs ==
  {Document(els, TransparentBlack, 375) : els \in SeqsUpTo(TextKinds, MaxText)}

\* one paragraph inside a chain of nested div elements
BackgroundValues ==
  {TransparentBlack, White, Black, TransparentRed, DisplayP3Red}
ForegroundValues == {Black, White, Gray119}
NestedElems(bgs, fg) ==
  [k \in 1..Len(bgs) |->
     Element(IF k = Len(bgs) THEN Tag("p") ELSE Tag("div"), NoAlt, Px16,
             IF k = Len(bgs) THEN fg ELSE Black, bgs[k], k - 1)]
NestedDocs ==
  {Document(NestedElems(bgs, fg), bodyBg, 375) :
     bgs \in UNION {[1..k -> BackgroundValues] : k \in 1..(MaxNested + 1)},
     fg \in ForegroundValues, bodyBg \in BackgroundValues}

\* images, headings and paragraphs together, at both sides of the overflow
\* tolerance: the images and the headings that give each score of their
\* checks, with any paragraphs
MaxTierText == 5
TierImgs ==
  {<<>>, <<Img(NoAlt)>>, <<Img(NoAlt), Img(Alt(<<"a">>))>>,
   <<Img(Alt(<<"a">>))>>}
TierHeadings ==
  {<<>>, <<Heading(Tag("h1"))>>, <<Heading(Tag("h1")), Heading(Tag("h3"))>>}
TierDocs ==
  {Document(imgs \o hs \o ps, White, sw) :
     imgs \in TierImgs, hs \in TierHeadings,
     ps \in SeqsUpTo({TextEl(Tag("p"), Px16, Black),
                      TextEl(Tag("p"), Px11, Black),
                      TextEl(Tag("p"), Px16, Gray119)}, MaxTierText),
     sw \in {380, 381}}

\* the HTML the user of the page has at hand: a page with 10 images, 6 of
\* them without alt, and no headings; and a page failing every check
PageA ==
  Document([k \in 1..10 |-> Img(IF k <= 6 THEN NoAlt ELSE Alt(<<"a">>))]
             \o <<TextEl(Tag("p"), Px16, Black)>>, White, 375)
PageB ==
  Document(<<Img(NoAlt), TextEl(Tag("p"), Px11, Gray119)>>, White, 395)

FileTexts == {HtmlText(0, <<PageA>>), HtmlText(0, <<PageB>>)}
InputTexts == {EmptyText, HtmlText(1, <<>>), HtmlText(1, <<PageB>>)}

\* ------------------------------------------------------------------------
\* The page
\* ------------------------------------------------------------------------
VARIABLES
  files,            \* fileInput.files: no file or one, given by its text
  value,            \* htmlInput.value
  statusMessage,    \* statusMessage.textContent
  readers,          \* the FileReaders whose read has not ended
  srcdoc,           \* previewFrame.srcdoc: the text set last, if any
  loadPending,      \* the load event of the last srcdoc has not fired yet
  contentDocument,  \* previewFrame.contentDocument
  analysis,         \* the object analyzeDocument returned last, if any
  locals,           \* the local variables of that call
  results,          \* the results section
  scoreChart,       \* the global: 0 is null, k is charts[k]
  charts,           \* every Chart object created, in order
  clicks,           \* number of clicks on Analyze
  lastRequest       \* click and text of the last click that supplied HTML

vars == <<files, value, statusMessage, readers, srcdoc, loadPending,
          contentDocument, analysis, locals, results, scoreChart, charts,
          clicks, lastRequest>>

NoResults ==
  [hidden |-> TRUE, scoreValue |-> -1, scoreLabel |-> "",
   summaryList |-> <<>>, issuesList |-> <<>>]

Init ==
  /\ files = <<>>
  /\ value = EmptyText
  /\ statusMessage = ""
  /\ readers = {}
  /\ srcdoc = <<>>
  /\ loadPending = FALSE
  /\ contentDocument = EmptyDoc
  /\ analysis = <<>>
  /\ locals = <<>>
  /\ results = NoResults
  /\ scoreChart = 0
  /\ charts = <<>>
  /\ clicks = 0
  /\ lastRequest = <<>>

\* the user chooses a file, or clears the choice
SelectFile(f) ==
  /\ files # f
  /\ files' = f
  /\ UNCHANGED <<value, statusMessage, readers, srcdoc, loadPending,
                 contentDocument, analysis, locals, results, scoreChart,
                 charts, clicks, lastRequest>>

\* the user edits the textarea
EditHtml(t) ==
  /\ value # t
  /\ value' = t
  /\ UNCHANGED <<files, statusMessage, readers, srcdoc, loadPending,
                 contentDocument, analysis, locals, results, scoreChart,
                 charts, clicks, lastRequest>>

\* runAnalysis up to the assignment of previewFrame.onload
runAnalysis(htmlString) ==
  /\ statusMessage' = "Analyzing..."
  /\ srcdoc' = <<htmlString>>
  /\ loadPending' = TRUE

\* the click handler of analyzeBtn
ClickAnalyze ==
  /\ clicks < MaxClicks
  /\ clicks' = clicks + 1
  /\ LET pastedHtml == TrimText(value)
     IN IF files = <<>> /\ pastedHtml = EmptyText
        THEN /\ statusMessage' = "Please upload an HTML file or paste some HTML."
             /\ UNCHANGED <<readers, srcdoc, loadPending, lastRequest>>
        ELSE IF files # <<>>
        THEN /\ statusMessage' = ""
             /\ readers' = readers \cup {[click |-> clicks + 1, text |-> files[1]]}
             /\ lastRequest' = <<[click |-> clicks + 1, text |-> files[1]]>>
             /\ UNCHANGED <<srcdoc, loadPending>>
        ELSE /\ runAnalysis(pastedHtml)
             /\ lastRequest' = <<[click |-> clicks + 1, text |-> pastedHtml]>>
             /\ UNCHANGED readers
  /\ UNCHANGED <<files, value, contentDocument, analysis, locals, results,
                 scoreChart, charts>>

\* reader.onload of one of the pending readers
ReaderOnload(r) ==
  /\ r \in readers
  /\ readers' = readers \ {r}
  /\ runAnalysis(r.text)
  /\ UNCHANGED <<files, value, contentDocument, analysis, locals, results,
                 scoreChart, charts, clicks, lastRequest>>

\* reader.onerror of one of the pending readers; the click then supplied
\* no HTML
ReaderOnerror(r) ==
  /\ r \in readers
  /\ readers' = readers \ {r}
  /\ statusMessage' = "Error reading file."
  /\ lastRequest' = IF lastRequest = <<r>> THEN <<>> ELSE lastRequest
  /\ UNCHANGED <<files, value, srcdoc, loadPending, contentDocument, analysis,
                 locals, results, scoreChart, charts, clicks>>

\* previewFrame.onload: analyzeDocument, renderResults with renderScoreChart
PreviewFrameOnload ==
  /\ loadPending
  /\ loadPending' = FALSE
  /\ contentDocument' = ParseHtml(srcdoc[1])
  /\ analysis' = <<analyzeDocument(contentDocument')>>
  /\ locals' = <<AnalyzeLocals(contentDocument')>>
  /\ results' = renderResults(analysis'[1])
  /\ charts' = renderScoreChart(charts, scoreChart, analysis'[1].finalScore)
  /\ scoreChart' = Len(charts')
  /\ statusMessage' = "Analysis completed."
  /\ UNCHANGED <<files, value, readers, srcdoc, clicks, lastRequest>>

Next ==
  \/ \E f \in {<<>>} \cup {<<t>> : t \in FileTexts} : SelectFile(f)
  \/ \E t \in InputTexts : EditHtml(t)
  \/ ClickAnalyze
  \/ \E r \in readers : ReaderOnload(r)
  \/ \E r \in readers : ReaderOnerror(r)
  \/ PreviewFrameOnload

Spec == Init /\ [][Next]_vars

\* The load handler on every document: the page right after
\* runAnalysis(html) for the HTML of any of the documents
Requested(d) ==
  /\ value = HtmlText(0, <<d>>)
  /\ srcdoc = <<HtmlText(0, <<d>>)>>
  /\ lastRequest = <<[click |-> 1, text |-> HtmlText(0, <<d>>)]>>

InitAnalyze ==
  /\ files = <<>>
  /\ \/ \E d \in AltDocs : Requested(d)
     \/ \E d \in HeadingDocs : Requested(d)
     \/ \E d \in TextDocs : Requested(d)
     \/ \E d \in NestedDocs : Requested(d)
     \/ \E d \in TierDocs : Requested(d)
  /\ statusMessage = "Analyzing..."
  /\ readers = {}
  /\ loadPending = TRUE
  /\ contentDocument = EmptyDoc
  /\ analysis = <<>>
  /\ locals = <<>>
  /\ results = NoResults
  /\ scoreChart = 0
  /\ charts = <<>>
  /\ clicks = 1

NextAnalyze == PreviewFrameOnload

SpecAnalyze == InitAnalyze /\ [][NextAnalyze]_vars

\* ------------------------------------------------------------------------
\* Properties
\* ------------------------------------------------------------------------
Analyzed == analysis # <<>>
Result == analysis[1]
Local == locals[1]

SubScoreSum ==
  Local.altScore + Local.headingScore + Local.fontScore
    + Local.contrastScore + Local.responsiveScore

Severities == [k \in 1..Len(Result.issues) |-> Result.issues[k].severity]

\* C1: after every analysis finalScore is an integer from 0 to 100 and is
\* the sum of the five sub-scores divided by 5, rounded to the nearest
\* integer, halves up: finalScore - 1/2 <= sum / 5 < finalScore + 1/2.
C1_FinalScoreIsRoundedMean ==
  Analyzed =>
    /\ Result.finalScore \in 0..100
    /\ 10 * Result.finalScore - 5 <= 2 * SubScoreSum
    /\ 2 * SubScoreSum < 10 * Result.finalScore + 5

\* a document scoring 60, 70, 80, 75 and 65 has been analyzed
C1_Witness ==
  /\ Analyzed
  /\ Local.altScore = 60 /\ Local.headingScore = 70 /\ Local.fontScore = 80
  /\ Local.contrastScore = 75 /\ Local.responsiveScore = 65
  /\ Result.finalScore = 70

\* the wording of the issues and of the summary lines of each check
CheckOrder == <<"alt", "heading", "font", "contrast", "responsive">>

IssueWordings(check) ==
  CASE check = "alt" ->
         {"image(s) without descriptive alt text",
          "All images appear to have alt text."}
    [] check = "heading" ->
         {"No heading tags (h1-h6) were found.", "jump(s) in heading levels",
          "Heading levels appear to follow a consistent hierarchy."}
    [] check = "font" ->
         {"text element(s) appear to use very small font sizes",
          "Font sizes for common text elements appear reasonably readable."}
    [] check = "contrast" ->
         {"text element(s) may have low color contrast",
          "No obvious low-contrast text detected in common elements."}
    [] check = "responsive" ->
         {"The layout appears to cause horizontal scrolling",
          "No horizontal scrolling detected"}

SummaryWordings(check) ==
  CASE check = "alt" -> {"No images detected.", "images are missing alt text"}
    [] check = "heading" ->
         {"No headings used", "heading(s); structure is mostly valid"}
    [] check = "font" ->
         {"Font sizes look readable", "Some text uses very small font sizes"}
    [] check = "contrast" ->
         {"Text contrast appears sufficient",
          "Some text elements may fail contrast guidelines"}
    [] check = "responsive" ->
         {"Some elements overflow horizontally on mobile",
          "Layout adapts reasonably well"}

\* C2: every analysis returns exactly 5 issues and exactly 5 summary lines,
\* the k-th of each being the one of the k-th check in the order alt text,
\* heading, font size, contrast, responsiveness.
C2_FiveIssuesInOrder ==
  Analyzed =>
    /\ Len(Result.issues) = 5
    /\ Len(Result.summary) = 5
    /\ \A k \in 1..5 :
         /\ Result.issues[k].text.msg \in IssueWordings(CheckOrder[k])
         /\ Result.summary[k].msg \in SummaryWordings(CheckOrder[k])

\* a document without any element, wider than the frame, has been analyzed
C2_Witness ==
  /\ Analyzed
  /\ contentDocument.elems = <<>>
  /\ contentDocument.scrollWidth > contentDocument.clientWidth + 5
  /\ Len(Result.issues) = 5
  /\ Severities[5] = "warning"

\* no img, no heading, no text element, no contrast target, no overflow
IsEmptyDocument(doc) ==
  /\ \A i \in 1..Len(doc.elems) :
       doc.elems[i].tagName
         \notin (ImgTag \cup HeadingTags \cup TextTags \cup ContrastTags)
  /\ ~(doc.scrollWidth > doc.clientWidth + 5)

\* C3 as stated: on an empty document all five sub-scores are 100,
\* finalScore is 100 and all five issues have severity ok.
C3_Original ==
  (Analyzed /\ IsEmptyDocument(contentDocument)) =>
    /\ Local.altScore = 100 /\ Local.headingScore = 100
    /\ Local.fontScore = 100 /\ Local.contrastScore = 100
    /\ Local.responsiveScore = 100
    /\ Result.finalScore = 100
    /\ Severities = <<"ok", "ok", "ok", "ok", "ok">>

\* C3 amended: on an empty document the heading sub-score is 50 and the
\* other four are 100, finalScore is 90, the heading issue is a warning and
\* the other four issues have severity ok.
C3_EmptyDocumentScores90 ==
  (Analyzed /\ IsEmptyDocument(contentDocument)) =>
    /\ Local.altScore = 100 /\ Local.headingScore = 50
    /\ Local.fontScore = 100 /\ Local.contrastScore = 100
    /\ Local.responsiveScore = 100
    /\ Result.finalScore = 90
    /\ Severities = <<"ok", "warning", "ok", "ok", "ok">>

\* the empty document has been analyzed
C3_Witness ==
  /\ Analyzed
  /\ IsEmptyDocument(contentDocument)
  /\ Result.finalScore = 90

\* the elements of doc with one of the tags, as a set of indices
ElementsOf(doc, tags) ==
  {i \in 1..Len(doc.elems) : doc.elems[i].tagName \in tags}

\* the trimmed alt attribute is empty or absent: the attribute is absent or
\* all of its characters are whitespace
AltIsMissing(img) ==
  img.alt.present => \A k \in 1..Len(img.alt.value) : img.alt.value[k] = " "

\* C4: with total the number of img elements and missing the number of them
\* whose trimmed alt is empty or absent, the alt-text sub-score is 100 when
\* total = 0, else 30 when missing / total > 0.5, 60 when
\* 0.2 < missing / total <= 0.5 and 90 when missing / total <= 0.2; the
\* severity of the issue is critical when missing > 0 and ok otherwise.
C4_AltTextTiers ==
  Analyzed =>
    LET imgs == ElementsOf(contentDocument, ImgTag)
        total == Cardinality(imgs)
        missing ==
          Cardinality({i \in imgs : AltIsMissing(contentDocument.elems[i])})
    IN /\ total = 0 => Local.altScore = 100 /\ Severities[1] = "ok"
       /\ (total > 0 /\ 10 * missing > 5 * total) => Local.altScore = 30
       /\ (total > 0 /\ 10 * missing > 2 * total /\ 10 * missing <= 5 * total)
            => Local.altScore = 60
       /\ (total > 0 /\ 10 * missing <= 2 * total) => Local.altScore = 90
       /\ Severities[1] = (IF missing > 0 THEN "critical" ELSE "ok")

\* one of five images lacks alt text: ratio 0.2, sub-score 90, critical
C4_Witness ==
  /\ Analyzed
  /\ Local.totalImgs = 5 /\ Local.missingAlt = 1
  /\ Local.altScore = 90
  /\ Severities[1] = "critical"

\* the level of a heading tag
LevelOfTag(tag) ==
  CASE tag = <<"H", "1">> -> 1 [] tag = <<"H", "2">> -> 2
    [] tag = <<"H", "3">> -> 3 [] tag = <<"H", "4">> -> 4
    [] tag = <<"H", "5">> -> 5 [] tag = <<"H", "6">> -> 6

\* the levels of the headings of doc in document order
RECURSIVE LevelsFrom(_, _)
LevelsFrom(doc, i) ==
  IF i > Len(doc.elems) THEN <<>>
  ELSE (IF doc.elems[i].tagName \in HeadingTags
        THEN <<LevelOfTag(doc.elems[i].tagName)>>
        ELSE <<>>) \o LevelsFrom(doc, i + 1)

\* C5: with level the heading levels in document order and jumps the number
\* of positions i >= 2 with level[i] - level[i-1] > 1, the heading check
\* gives 50 and a warning for no headings, 70 and a warning when jumps > 0,
\* 100 and ok when jumps = 0.
C5_HeadingJumps ==
  Analyzed =>
    LET level == LevelsFrom(contentDocument, 1)
        jumps == Cardinality({i \in 2..Len(level) : level[i] - level[i-1] > 1})
    IN /\ Len(level) = 0 =>
            Local.headingScore = 50 /\ Severities[2] = "warning"
       /\ Len(level) > 0 => Local.jumps = jumps
       /\ (Len(level) > 0 /\ jumps > 0) =>
            Local.headingScore = 70 /\ Severities[2] = "warning"
       /\ (Len(level) > 0 /\ jumps = 0) =>
            Local.headingScore = 100 /\ Severities[2] = "ok"

\* h3, h1, h2: a first heading of level 3, a decrease and an increase by
\* one, none of which counts
C5_Witness ==
  /\ Analyzed
  /\ LevelsFrom(contentDocument, 1) = <<3, 1, 2>>
  /\ Local.headingScore = 100
  /\ Severities[2] = "ok"

\* the colour string has the form rgb(...) or rgba(...)
Parseable(colorStr) == colorStr.fn \in {"rgb", "rgba"}

\* the k-th contrast target and its contrast ratio
TargetOf(k) == contentDocument.elems[Local.contrastTargets[k]]
RatioOf(k) == computeContrastRatio(TargetOf(k).color, Local.bg[k])

\* C6: a contrast target whose foreground or background cannot be parsed
\* has ratio -1 and is not counted; the targets counted are those with a
\* positive ratio below 4.5; with count of n targets counted the sub-score
\* is 100 with an ok issue when count = 0, 55 with a critical issue when
\* count > 20% of n, 75 with a critical issue otherwise.
C6_ContrastCount ==
  Analyzed =>
    LET n == Len(Local.contrastTargets)
        unparsed == {k \in 1..n : ~Parseable(TargetOf(k).color)
                                    \/ ~Parseable(Local.bg[k])}
        counted == {k \in 1..n : /\ RatioOf(k).num > 0
                                 /\ 10 * RatioOf(k).num < 45 * RatioOf(k).den}
        count == Cardinality(counted)
    IN /\ n = Cardinality(ElementsOf(contentDocument, ContrastTags))
       /\ \A k \in unparsed : RatioOf(k).num = -1 /\ RatioOf(k).den = 1
       /\ unparsed \cap counted = {}
       /\ Local.lowContrastCount = count
       /\ count = 0 => Local.contrastScore = 100 /\ Severities[4] = "ok"
       /\ (count > 0 /\ 100 * count > 20 * n) =>
            Local.contrastScore = 55 /\ Severities[4] = "critical"
       /\ (count > 0 /\ 100 * count <= 20 * n) =>
            Local.contrastScore = 75 /\ Severities[4] = "critical"

\* five targets, one of low contrast and one with a colour the parser
\* rejects: one counted, 20%, sub-score 75
C6_Witness ==
  /\ Analyzed
  /\ Len(Local.contrastTargets) = 5
  /\ \E k \in 1..5 : ~Parseable(TargetOf(k).color)
  /\ Local.lowContrastCount = 1
  /\ Local.contrastScore = 75

\* the colour is fully transparent: its alpha is 0
FullyTransparent(colorStr) ==
  colorStr.fn = "rgba" /\ Len(colorStr.args) = 4 /\ colorStr.args[4] = 0

\* the background of the first node from node upwards, the root element
\* excluded, that is not fully transparent; opaque white if there is none
RECURSIVE FirstVisibleBackground(_, _)
FirstVisibleBackground(doc, node) ==
  IF node = DocumentElement THEN White
  ELSE IF ~FullyTransparent(BackgroundColorOf(doc, node))
       THEN BackgroundColorOf(doc, node)
       ELSE FirstVisibleBackground(doc, ParentElement(doc, node))

\* C7 as stated: for every contrast target whose background is resolved by
\* getEffectiveBackground, the result is the background of the first node up
\* the ancestor chain that is not fully transparent, or opaque white if
\* there is none, and is never a fully transparent colour.
C7_Original ==
  Analyzed =>
    \A k \in 1..Len(Local.contrastTargets) :
      TargetOf(k).backgroundColor = TransparentBlack =>
        /\ Local.bg[k]
             = FirstVisibleBackground(contentDocument, Local.contrastTargets[k])
        /\ ~FullyTransparent(Local.bg[k])

\* C10: after every analysis finalScore is at least 52 and at most 100, and
\* the score label is not "Needs improvement".
C10_ScoreAtLeast52 ==
  Analyzed =>
    /\ Result.finalScore >= 52
    /\ Result.finalScore <= 100
    /\ results.scoreValue = Result.finalScore
    /\ results.scoreLabel # "Needs improvement"

\* every check at its lowest score: 30, 50, 60, 55, 65, finalScore 52
C10_Witness ==
  /\ Analyzed
  /\ Local.altScore = 30 /\ Local.headingScore = 50 /\ Local.fontScore = 60
  /\ Local.contrastScore = 55 /\ Local.responsiveScore = 65
  /\ Result.finalScore = 52
  /\ results.scoreLabel = "Fair, consider fixing key issues"

\* the Chart objects that have not been destroyed
LiveCharts == {k \in 1..Len(charts) : ~charts[k].destroyed}

\* C8: at most one Chart object is not destroyed, and it is the one
\* scoreChart refers to: every chart replaced was destroyed first.
C8_ReleaseBeforeReplace ==
  /\ Cardinality(LiveCharts) <= 1
  /\ \A k \in LiveCharts : k = scoreChart

\* a second chart has replaced the first, which is destroyed
C8_Witness ==
  /\ Len(charts) >= 2
  /\ charts[1].destroyed
  /\ scoreChart = Len(charts)
  /\ LiveCharts = {scoreChart}

\* what the page shows after the analysis of the HTML text t
Displayed(t) == renderResults(analyzeDocument(ParseHtml(t)))

\* C9 as stated: once no file read and no frame load is pending, the score,
\* the issue list, the summary and the chart shown are those of the HTML
\* supplied by the most recent click that supplied any.
C9_Original ==
  (readers = {} /\ ~loadPending /\ lastRequest # <<>>) =>
    /\ results = Displayed(lastRequest[1].text)
    /\ scoreChart # 0
    /\ charts[scoreChart].data[1] = Displayed(lastRequest[1].text).scoreValue

====
